---- MODULE Spec2Model ----
(***************************************************************************)
(* Model of the AutoOps agent (src/agent.py) together with the two event   *)
(* producers (src/service_simulator.py, src/log_emitter.py).               *)
(*                                                                         *)
(* The agent is a FastAPI application whose handlers are coroutines        *)
(* (async def) that never await: the event loop runs each handler from its *)
(* first line to its return before it picks the next request.  A cycle is  *)
(* modelled one source statement group at a time (pc), and the event loop  *)
(* by the guard LoopBusy on the first step of every handler.               *)
(***************************************************************************)
EXTENDS Integers, Sequences, FiniteSets, TLC

\* ---------------------------------------------------------------- bounds
MaxSend == 2        \* events the clients post in Spec
MaxBeat == 32       \* heartbeats posted in SpecWindow
MaxInbox == 1       \* posted events waiting for the event loop
MaxCycles == 2      \* run_cycle requests issued
MaxClock == 1       \* seconds the UTC clock advances
MaxCrash == 1       \* calls of the simulator's /crash route
MaxWin == 6         \* events in a window handed to the detector in SpecDetect

\* ------------------------------------------------------ program constants
WindowCap == 30
MinThreshold == 80
DefaultThreshold == 300
HeartbeatBase == 100
HeartbeatSpread == 20

Tasks == {1, 2}

\* ----------------------------------------------------------- dictionaries
\* dict.get(key, default)
Get(d, key, default) == IF key \in DOMAIN d THEN d[key] ELSE default

\* d[key] = value
Put(d, key, value) == [k \in (DOMAIN d) \cup {key} |-> IF k = key THEN value ELSE d[k]]

\* str.lower() on the level strings the producers send
Lower(s) == CASE s = "ERROR" -> "error"
              [] s = "Error" -> "error"
              [] s = "INFO" -> "info"
              [] OTHER -> s

\* ---------------------------------------------------------------- events
\* LogEvent.dict(): service and message are constant text and left out;
\* metric is always present (default {}), here a record that may lack
\* latency_ms.
Heartbeat(n, ts, st) ==
    [timestamp |-> ts,
     metric |-> [cpu |-> 20 + (n % 5), latency_ms |-> HeartbeatBase + (n % HeartbeatSpread)],
     level |-> "info",
     state |-> st]

send_event(ts, level, st, latency) ==
    [timestamp |-> ts,
     metric |-> [latency_ms |-> latency],
     level |-> level,
     state |-> st]

\* a client that posts a LogEvent without a latency metric
bare_event(ts, level, st) ==
    [timestamp |-> ts,
     metric |-> [cpu |-> 20],
     level |-> level,
     state |-> st]

\* ------------------------------------------------------------- detector
RECURSIVE SeqSum(_)
SeqSum(s) == IF s = <<>> THEN 0 ELSE s[1] + SeqSum(Tail(s))

Latencies(win) == [k \in 1..Len(win) |-> Get(win[k].metric, "latency_ms", 0)]

ErrorFlags(win) ==
    [k \in 1..Len(win) |-> IF win[k].state = "crashed" \/ win[k].level = "error" THEN 1 ELSE 0]

\* z > 2.0 with z = (latest - mean) / (std + 1e-6), over the integers:
\* with n = len, S = sum, Q = sum of squares, D = n*latest - S and
\* V = n*Q - S*S, z > 2 iff D - 2n/10^6 > 2*sqrt(V), iff D >= 1 and
\* (D*D - 4V) * 10^6 >= 4nD  (n < 500).
ZAboveTwo(n, latest, S, Q) ==
    LET D == n * latest - S
        V == n * Q - S * S
        A == D * D - 4 * V
    IN  D >= 1 /\ A >= 1 /\ A >= (4 * n * D + 999999) \div 1000000

\* the comparison written error_rate > 0.5
RateAboveHalf(errors, count) == 100 * errors > 50 * count

\* error_rate > 0.15, error_rate = errors / count
RateAbove(errors, count) == 100 * errors > 15 * count

analyze_metrics(win) ==
    LET lat == Latencies(win)
        flags == ErrorFlags(win)
        n == Len(lat)
        S == SeqSum(lat)
        Q == SeqSum([k \in 1..n |-> lat[k] * lat[k]])
        errs == SeqSum(flags)
        zhigh == ZAboveTwo(n, lat[n], S, Q)
        ehigh == RateAbove(errs, Len(flags))
    IN  IF n = 0
        THEN [anomaly |-> FALSE, stats |-> FALSE, z_high |-> FALSE, rate_high |-> FALSE,
              latest_latency |-> 0, n |-> 0, sum |-> 0, errors |-> 0]
        ELSE [anomaly |-> zhigh \/ ehigh, stats |-> TRUE, z_high |-> zhigh, rate_high |-> ehigh,
              latest_latency |-> lat[n], n |-> n, sum |-> S, errors |-> errs]

\* analysis["error_rate"] raises KeyError on the verdict {"anomaly": False},
\* which carries no other key (stats = FALSE)
root_cause_reasoning(a) ==
    IF ~a.stats THEN "KeyError"
    ELSE IF a.rate_high THEN "service_crash_or_high_error_rate"
    ELSE IF a.z_high THEN "latency_spike"
    ELSE "unknown"

\* ------------------------------------------------------ workflow document
\* One step of workflow.json: {id, type, params}.
DetectStep(threshold) ==
    [id |-> "detect_latency", type |-> "anomaly_detection",
     params |-> [latency_threshold_ms |-> threshold]]

\* an anomaly_detection step that carries no latency_threshold_ms
DetectStepPlain ==
    [id |-> "detect_latency", type |-> "anomaly_detection", params |-> [window |-> 30]]

RestartStep(id, method) ==
    [id |-> id, type |-> "action_restart_service", params |-> [method |-> method]]

\* a restart step that also names the path to probe
RestartStepProbe(id, method, path) ==
    [id |-> id, type |-> "action_restart_service",
     params |-> [method |-> method, check_endpoint |-> path]]

VerifyStep(path) ==
    [id |-> "verify", type |-> "verify_recovery", params |-> [check_endpoint |-> path]]

NotifyStep ==
    [id |-> "notify_admin", type |-> "action_notify",
     params |-> [channel |-> "console",
                 message |-> "AutoOps Evo: remediation failed, manual review required"]]

\* The documents workflow.json may hold when the agent starts (the file is
\* written by the operator and is not part of the sources).
WorkflowTypical ==
    <<DetectStep(300), RestartStep("restart_service", "http_restart"), VerifyStep("/work")>>

WorkflowNearFloor ==
    <<DetectStep(84), RestartStep("restart_service", "docker_restart"), VerifyStep("/")>>

WorkflowBelowFloor ==
    <<DetectStep(50), RestartStepProbe("restart_service", "http_restart", "/work")>>

WorkflowTwoRestarts ==
    <<DetectStepPlain, RestartStep("restart_a", "docker_restart"),
      RestartStepProbe("restart_b", "http_restart", "/work"), VerifyStep("/health")>>

WorkflowNoRestart ==
    <<DetectStep(300), VerifyStep("/work")>>

WorkflowEmpty == <<>>

InitialWorkflows ==
    {WorkflowTypical, WorkflowNearFloor, WorkflowBelowFloor, WorkflowTwoRestarts,
     WorkflowNoRestart, WorkflowEmpty}

\* workflow.json on disk: present and parseable, present and not JSON, or absent.
FileOk(steps) == [status |-> "ok", steps |-> steps]
FileMalformed == [status |-> "malformed", steps |-> <<>>]
FileMissing == [status |-> "missing", steps |-> <<>>]

\* ---------------------------------------------------------------- evolver
StepIds(steps) == {steps[k].id : k \in 1..Len(steps)}

\* max(80, int(t * 0.95)); int(t * 0.95) = (95 t) div 100 for 0 <= t < 5000
LoweredThreshold(t) ==
    LET lowered == (t * 95) \div 100
    IN  IF lowered > MinThreshold THEN lowered ELSE MinThreshold

\* the loop of the success branch
LowerThresholds(steps) ==
    [k \in 1..Len(steps) |->
        IF steps[k].type = "anomaly_detection"
        THEN [steps[k] EXCEPT !.params =
                 Put(@, "latency_threshold_ms",
                     LoweredThreshold(Get(@, "latency_threshold_ms", DefaultThreshold)))]
        ELSE steps[k]]

\* the guard of the failure branch
NeedsNotify(steps) == "notify_admin" \notin StepIds(steps)

\* workflow["steps"].insert(0, ...) instead of append
PrependNotify(steps) == <<NotifyStep>> \o steps

\* workflow["steps"].append({...notify_admin...})
AppendNotify(steps) == Append(steps, NotifyStep)

\* what reflect_and_evolve does to the in-memory workflow, and the reason
\* it snapshots under; mutates = FALSE is the path that returns evolved False
reflect_and_evolve(steps, success) ==
    IF success
    THEN [mutates |-> TRUE, steps |-> LowerThresholds(steps),
          reason |-> "improved_after_success", note |-> "lowered latency threshold"]
    ELSE IF NeedsNotify(steps)
    THEN [mutates |-> TRUE, steps |-> AppendNotify(steps),
          reason |-> "added_notify_after_failure", note |-> "added notify_admin step"]
    ELSE [mutates |-> FALSE, steps |-> steps, reason |-> "", note |-> ""]

\* name of a file in workflow_versions: <ts>__<reason>.json, ts in whole
\* seconds; neither reason holds a space, so replace(' ', '_') keeps it
VersionName(ts, reason) == [ts |-> ts, reason |-> reason]

\* shutil.copyfile(src, dest): dest is created or overwritten
CopyFile(area, name, content) ==
    {v \in area : v.name # name} \cup {[name |-> name, content |-> content]}

VersionNames(area) == {v.name : v \in area}

\* ------------------------------------------------------ monitored service
\* the routes of service_simulator.py: status code and the state after
ServiceGet(path, h) ==
    CASE path = "/" -> [status_code |-> 200, healthy |-> h]
      [] path = "/work" -> [status_code |-> IF h = "crashed" THEN 503 ELSE 200, healthy |-> h]
      [] path = "/crash" -> [status_code |-> 200, healthy |-> "crashed"]
      [] path = "/recover" -> [status_code |-> 200, healthy |-> "ok"]
      [] OTHER -> [status_code |-> 404, healthy |-> h]

\* the loop of lines 158-164 without its break: the last restart step wins
LastRestart(steps) ==
    IF \E k \in 1..Len(steps) : steps[k].type = "action_restart_service"
    THEN CHOOSE k \in 1..Len(steps) :
            /\ steps[k].type = "action_restart_service"
            /\ \A j \in (k + 1)..Len(steps) : steps[j].type # "action_restart_service"
    ELSE 0

\* index of the first step of type action_restart_service, 0 if none
FirstRestart(steps) ==
    IF \E k \in 1..Len(steps) : steps[k].type = "action_restart_service"
    THEN CHOOSE k \in 1..Len(steps) :
            /\ steps[k].type = "action_restart_service"
            /\ \A j \in 1..(k - 1) : steps[j].type # "action_restart_service"
    ELSE 0

\* action_detail initialised to {} instead of None
EmptyDetail == [none |-> FALSE, ok |-> FALSE, contacted |-> FALSE, status_code |-> 0]

\* action_detail is None until a restart step has been dispatched
NoDetail == [none |-> TRUE, ok |-> FALSE, contacted |-> FALSE, status_code |-> 0]

\* execute_action: up = the transport reaches the service
execute_action(action, params, up, h) ==
    LET method == Get(params, "method", "http_restart")
    IN  IF action = "action_restart_service"
        THEN IF method = "http_restart"
             THEN IF up
                  THEN [none |-> FALSE, ok |-> TRUE, contacted |-> TRUE,
                        status_code |-> ServiceGet("/recover", h).status_code]
                  ELSE [none |-> FALSE, ok |-> FALSE, contacted |-> TRUE, status_code |-> 0]
             ELSE [none |-> FALSE, ok |-> TRUE, contacted |-> FALSE, status_code |-> 0]
        ELSE [none |-> FALSE, ok |-> FALSE, contacted |-> FALSE, status_code |-> 0]

NoVerify == [ok |-> FALSE, path |-> "", status_code |-> 0]

\* verify_recovery with "/health" as the default check_endpoint
verify_recovery_health(params, up, h) ==
    LET check_endpoint == Get(params, "check_endpoint", "/health")
        code == ServiceGet(check_endpoint, h).status_code
    IN  IF up
        THEN [ok |-> code = 200, path |-> check_endpoint, status_code |-> code]
        ELSE [ok |-> FALSE, path |-> check_endpoint, status_code |-> 0]

\* verify_recovery: ok iff the probe answers 200
verify_recovery(params, up, h) ==
    LET check_endpoint == Get(params, "check_endpoint", "/")
        code == ServiceGet(check_endpoint, h).status_code
    IN  IF up
        THEN [ok |-> code = 200, path |-> check_endpoint, status_code |-> code]
        ELSE [ok |-> FALSE, path |-> check_endpoint, status_code |-> 0]

\* ------------------------------------------------------------------ state
VARIABLES
    window,         \* METRICS["window"]
    total_count,    \* METRICS["total_count"]
    error_count,    \* METRICS["error_count"]
    wfFile,         \* workflow.json on disk
    versions,       \* files of workflow_versions/
    now,            \* UTC clock, whole seconds
    healthy,        \* healthy["state"] of the monitored service
    i,              \* heartbeat counter of the simulator
    sent,           \* events posted so far (stands for time.time() in an event)
    inbox,          \* posted events the event loop has not yet handled
    pc,             \* position of each run_cycle request
    frame,          \* local variables of each run_cycle call
    resp,           \* the last response returned to each caller
    cycles,         \* run_cycle requests issued
    crashes,        \* /crash calls made
    arrived,        \* history: events ingested since the last reset
    start,          \* history: shared state when the handler started
    analysed,       \* history: the window analyze_metrics read
    calls,          \* history: requests sent to the monitored service by the cycle
    dispatched      \* history: indices of the steps passed to execute_action

vars == <<window, total_count, error_count, wfFile, versions, now, healthy, i, sent,
          inbox, pc, frame, resp, cycles, crashes, arrived, start, analysed, calls,
          dispatched>>

metrics == <<window, total_count, error_count, arrived>>
store == <<wfFile, versions>>
producers == <<i, sent, inbox>>
history == <<start, analysed, calls, dispatched>>

NoFrame ==
    [workflow |-> <<>>, analysis |-> analyze_metrics(<<>>), rc |-> "", action_taken |-> "",
     action_detail |-> NoDetail, verified |-> NoVerify, success |-> FALSE,
     evolved |-> FALSE, note |-> ""]

NoResp ==
    [status |-> "none", error |-> "", root_cause |-> "", action_taken |-> "",
     action_ok |-> FALSE, verified_ok |-> FALSE, evolved |-> FALSE]

\* an exception that leaves the handler: the caller gets a 500
ErrorResp(e) == [NoResp EXCEPT !.status = "error", !.error = e]

NoStart ==
    [window |-> <<>>, total_count |-> 0, error_count |-> 0, wfFile |-> FileMissing,
     versions |-> {}]

Shared == 
    [window |-> window, total_count |-> total_count, error_count |-> error_count,
     wfFile |-> wfFile, versions |-> versions]

\* The event loop is inside a run_cycle handler: both handlers are
\* coroutines without an await, so a handler that has started runs to its
\* return before any other handler starts.
LoopBusy == \E t \in Tasks : pc[t] \notin {"idle", "queued"}

\* ingest_log declared def instead of async def: it runs on a worker thread
IngestAnyTime == TRUE

\* when the event loop enters the ingest_log coroutine
IngestMayStart == ~LoopBusy

\* run_cycle declared def instead of async def
CycleAnyTime == TRUE

\* when the event loop enters the run_cycle coroutine
CycleMayStart == ~LoopBusy

InitCommon ==
    /\ window = <<>>
    /\ total_count = 0
    /\ error_count = 0
    /\ versions = {}
    /\ now = 0
    /\ healthy = "ok"
    /\ i = 0
    /\ sent = 0
    /\ inbox = <<>>
    /\ pc = [t \in Tasks |-> "idle"]
    /\ frame = [t \in Tasks |-> NoFrame]
    /\ resp = [t \in Tasks |-> NoResp]
    /\ cycles = 0
    /\ crashes = 0
    /\ arrived = <<>>
    /\ start = [t \in Tasks |-> NoStart]
    /\ analysed = [t \in Tasks |-> <<>>]
    /\ calls = [t \in Tasks |-> <<>>]
    /\ dispatched = [t \in Tasks |-> <<>>]

Init ==
    /\ InitCommon
    /\ \/ \E w \in InitialWorkflows : wfFile = FileOk(w)
       \/ wfFile = FileMalformed
       \/ wfFile = FileMissing

\* ------------------------------------------------------------- producers
\* emit_heartbeat of the simulator posts one event
EmitHeartbeat(max) ==
    /\ sent < max
    /\ Len(inbox) < MaxInbox
    /\ inbox' = Append(inbox, Heartbeat(i, sent, healthy))
    /\ i' = i + 1
    /\ sent' = sent + 1
    /\ UNCHANGED <<metrics, store, now, healthy, pc, frame, resp, cycles, crashes, history>>

\* the events of log_emitter.py, and a client that sends no latency metric
ClientEvents(ts) ==
    {send_event(ts, "info", "ok", 100),
     send_event(ts, "error", "crashed", 1200),
     bare_event(ts, "ERROR", "ok")}

SendEvent(max) ==
    /\ sent < max
    /\ Len(inbox) < MaxInbox
    /\ \E e \in ClientEvents(sent) : inbox' = Append(inbox, e)
    /\ sent' = sent + 1
    /\ UNCHANGED <<metrics, store, now, healthy, i, pc, frame, resp, cycles, crashes, history>>

\* someone calls the simulator's /crash route
Crash ==
    /\ crashes < MaxCrash
    /\ crashes' = crashes + 1
    /\ healthy' = ServiceGet("/crash", healthy).healthy
    /\ UNCHANGED <<metrics, store, now, producers, pc, frame, resp, cycles, history>>

Tick ==
    /\ now < MaxClock
    /\ now' = now + 1
    /\ UNCHANGED <<metrics, store, healthy, producers, pc, frame, resp, cycles, crashes, history>>

\* ------------------------------------------------------------ ingest_log
\* the trim written as pop() instead of pop(0)
TrimmedNewest(win) == IF Len(win) > WindowCap THEN SubSeq(win, 1, Len(win) - 1) ELSE win

\* the window after the append and the trim of lines 137-143
Trimmed(win) == IF Len(win) > WindowCap THEN Tail(win) ELSE win

\* the test on the level alone
CountsLevelOnly(event) == Lower(event.level) = "error"

\* line 139: event.level.lower() == "error" or event.state == "crashed"
CountsAsError(event) == Lower(event.level) = "error" \/ event.state = "crashed"

ingest_log ==
    /\ IngestMayStart
    /\ inbox # <<>>
    /\ LET event == Head(inbox)
       IN  /\ window' = Trimmed(Append(window, event))
           /\ total_count' = total_count + 1
           /\ error_count' = IF CountsAsError(event) THEN error_count + 1 ELSE error_count
           /\ arrived' = Append(arrived, event)
    /\ inbox' = Tail(inbox)
    /\ UNCHANGED <<store, now, healthy, i, sent, pc, frame, resp, cycles, crashes, history>>

\* ------------------------------------------------------------- run_cycle
\* the handler returns or raises: its locals are gone
Return(t, response) ==
    /\ resp' = [resp EXCEPT ![t] = response]
    /\ pc' = [pc EXCEPT ![t] = "idle"]
    /\ frame' = [frame EXCEPT ![t] = NoFrame]
    /\ start' = [start EXCEPT ![t] = NoStart]
    /\ analysed' = [analysed EXCEPT ![t] = <<>>]
    /\ calls' = [calls EXCEPT ![t] = <<>>]
    /\ dispatched' = [dispatched EXCEPT ![t] = <<>>]

Goto(t, label) == pc' = [pc EXCEPT ![t] = label]

\* the reset without line 182
ResetKeepsTotal ==
    /\ window' = <<>>
    /\ error_count' = 0
    /\ arrived' = <<>>
    /\ UNCHANGED total_count

\* lines 180-182
ResetMetrics ==
    /\ window' = <<>>
    /\ error_count' = 0
    /\ total_count' = 0
    /\ arrived' = <<>>

\* the early return placed after the reset
QuietReturnClears(t) ==
    /\ Return(t, [NoResp EXCEPT !.status = "no_anomaly"])
    /\ ResetMetrics

\* lines 154-155
QuietReturn(t) ==
    /\ Return(t, [NoResp EXCEPT !.status = "no_anomaly"])
    /\ UNCHANGED metrics

\* a POST /run_cycle arrives and waits for the event loop; the requests
\* are interchangeable, so a new one takes the lowest free slot
RequestCycle(t) ==
    /\ pc[t] = "idle"
    /\ \A u \in Tasks : u < t => pc[u] # "idle"
    /\ cycles < MaxCycles
    /\ cycles' = cycles + 1
    /\ Goto(t, "queued")
    /\ resp' = [resp EXCEPT ![t] = NoResp]
    /\ UNCHANGED <<metrics, store, now, healthy, producers, frame, crashes, history>>

\* line 152: workflow = load_workflow()
Load(t) ==
    /\ pc[t] = "queued"
    /\ CycleMayStart
    /\ IF wfFile.status = "ok"
       THEN /\ frame' = [frame EXCEPT ![t] = [NoFrame EXCEPT !.workflow = wfFile.steps]]
            /\ start' = [start EXCEPT ![t] = Shared]
            /\ Goto(t, "analyze")
            /\ UNCHANGED <<resp, analysed, calls, dispatched>>
       ELSE Return(t, ErrorResp(IF wfFile.status = "missing"
                                THEN "FileNotFoundError" ELSE "JSONDecodeError"))
    /\ UNCHANGED <<metrics, store, now, healthy, producers, cycles, crashes>>

\* lines 153-155: analysis, and the return of a quiet window
Analyze(t) ==
    /\ pc[t] = "analyze"
    /\ LET analysis == analyze_metrics(window)
       IN  IF ~analysis.anomaly
           THEN QuietReturn(t)
           ELSE /\ frame' = [frame EXCEPT ![t].analysis = analysis]
                /\ analysed' = [analysed EXCEPT ![t] = window]
                /\ Goto(t, "act")
                /\ UNCHANGED <<metrics, resp, start, calls, dispatched>>
    /\ UNCHANGED <<store, now, healthy, producers, cycles, crashes>>

\* lines 156-164: root cause, then the first restart step is dispatched
Act(t) ==
    /\ pc[t] = "act"
    /\ LET workflow == frame[t].workflow
           rc == root_cause_reasoning(frame[t].analysis)
           k == FirstRestart(workflow)
       IN  IF k = 0
           THEN /\ frame' = [frame EXCEPT ![t].rc = rc]
                /\ UNCHANGED <<healthy, calls, dispatched>>
           ELSE \E up \in BOOLEAN :
                   LET step == workflow[k]
                       detail == execute_action(step.type, step.params, up, healthy)
                   IN  /\ frame' = [frame EXCEPT ![t].rc = rc,
                                                 ![t].action_taken = step.id,
                                                 ![t].action_detail = detail]
                       /\ healthy' = IF detail.contacted /\ up
                                     THEN ServiceGet("/recover", healthy).healthy
                                     ELSE healthy
                       /\ calls' = IF detail.contacted
                                   THEN [calls EXCEPT ![t] = Append(@, "/recover")]
                                   ELSE calls
                       /\ dispatched' = [dispatched EXCEPT ![t] = Append(@, k)]
    /\ Goto(t, "verify")
    /\ UNCHANGED <<metrics, store, now, producers, resp, cycles, crashes, start, analysed>>

\* the probe configured on the step that was restarted
RestartParams(workflow) ==
    workflow[IF FirstRestart(workflow) = 0 THEN Len(workflow) ELSE FirstRestart(workflow)].params

\* workflow.get("steps")[-1].get("params", {})
VerifyParams(workflow) == workflow[Len(workflow)].params

\* line 166: verify_recovery(workflow.get("steps")[-1].get("params", {}))
Verify(t) ==
    /\ pc[t] = "verify"
    /\ LET workflow == frame[t].workflow
       IN  IF Len(workflow) = 0
           THEN /\ Return(t, ErrorResp("IndexError"))
                /\ UNCHANGED healthy
           ELSE \E up \in BOOLEAN :
                   LET verified == verify_recovery(VerifyParams(workflow), up, healthy)
                   IN  /\ frame' = [frame EXCEPT ![t].verified = verified]
                       /\ healthy' = IF up THEN ServiceGet(verified.path, healthy).healthy
                                     ELSE healthy
                       /\ calls' = [calls EXCEPT ![t] = Append(@, verified.path)]
                       /\ Goto(t, "reflect")
                       /\ UNCHANGED <<resp, start, analysed, dispatched>>
    /\ UNCHANGED <<metrics, store, now, producers, cycles, crashes>>

\* snapshot_workflow(reason): the copy either lands in the versions area or
\* raises (no source file, or the versions area cannot be written)
CanCopy(copied) == copied /\ wfFile.status # "missing"

\* lines 167-169 up to and including snapshot_workflow: success, the
\* in-memory mutation of reflect_and_evolve and the snapshot
Reflect(t) ==
    /\ pc[t] = "reflect"
    /\ IF frame[t].action_detail.none
       THEN /\ Return(t, ErrorResp("AttributeError"))
            /\ UNCHANGED versions
       ELSE LET success == frame[t].action_detail.ok /\ frame[t].verified.ok
                r == reflect_and_evolve(frame[t].workflow, success)
            IN  IF r.mutates
                THEN \E copied \in BOOLEAN :
                        IF CanCopy(copied)
                        THEN /\ versions' = CopyFile(versions, VersionName(now, r.reason), wfFile)
                             /\ frame' = [frame EXCEPT ![t].success = success,
                                                       ![t].workflow = r.steps,
                                                       ![t].note = r.note]
                             /\ Goto(t, "save")
                             /\ UNCHANGED <<resp, history>>
                        ELSE /\ Return(t, ErrorResp("OSError"))
                             /\ UNCHANGED versions
                ELSE /\ frame' = [frame EXCEPT ![t].success = success, ![t].evolved = FALSE]
                     /\ Goto(t, "clear")
                     /\ UNCHANGED <<versions, resp, history>>
    /\ UNCHANGED <<metrics, wfFile, now, healthy, producers, cycles, crashes>>

\* lines 108-109 and 121-122: save_workflow(workflow), evolved True
Save(t) ==
    /\ pc[t] = "save"
    /\ wfFile' = FileOk(frame[t].workflow)
    /\ frame' = [frame EXCEPT ![t].evolved = TRUE]
    /\ Goto(t, "clear")
    /\ UNCHANGED <<metrics, versions, now, healthy, producers, resp, cycles, crashes, history>>

\* lines 171-183: the window and the counters are cleared, the outcome returned
Clear(t) ==
    /\ pc[t] = "clear"
    /\ ResetMetrics
    /\ Return(t, [status |-> "remediation_ran", error |-> "",
                  root_cause |-> frame[t].rc,
                  action_taken |-> frame[t].action_taken,
                  action_ok |-> frame[t].action_detail.ok,
                  verified_ok |-> frame[t].verified.ok,
                  evolved |-> frame[t].evolved])
    /\ UNCHANGED <<store, now, healthy, producers, cycles, crashes>>

run_cycle(t) ==
    \/ Load(t)
    \/ Analyze(t)
    \/ Act(t)
    \/ Verify(t)
    \/ Reflect(t)
    \/ Save(t)
    \/ Clear(t)

\* ---------------------------------------------------------- specifications
Next ==
    \/ SendEvent(MaxSend)
    \/ Crash
    \/ Tick
    \/ ingest_log
    \/ \E t \in Tasks : RequestCycle(t)
    \/ \E t \in Tasks : run_cycle(t)

Spec == Init /\ [][Next]_vars

\* A long run of heartbeats against one workflow: the window fills and evicts.
InitWindow ==
    /\ InitCommon
    /\ wfFile = FileOk(WorkflowNearFloor)

NextWindow ==
    \/ EmitHeartbeat(MaxBeat)
    \/ Crash
    \/ ingest_log
    \/ RequestCycle(1)
    \/ run_cycle(1)

SpecWindow == InitWindow /\ [][NextWindow]_vars

\* ------------------------------------------- detector and classifier alone
\* The events of a window handed to analyze_metrics: log_emitter's normal
\* and crash events, a latency spike without an error, and an error event
\* posted without a latency metric.
DetectorEvents ==
    {send_event(0, "info", "ok", 100),
     send_event(0, "info", "ok", 1200),
     send_event(0, "error", "crashed", 1200),
     bare_event(0, "error", "ok")}

DetectorWindows == UNION {[1..n -> DetectorEvents] : n \in 0..MaxWin}

\* METRICS after the events of win have been ingested
InitDetect ==
    /\ \E win \in DetectorWindows :
          /\ window = win
          /\ arrived = win
          /\ total_count = Len(win)
          /\ error_count = Cardinality({k \in 1..Len(win) : CountsAsError(win[k])})
    /\ \E w \in {WorkflowTypical, WorkflowBelowFloor} : wfFile = FileOk(w)
    /\ versions = {}
    /\ now = 0
    /\ healthy = "ok"
    /\ i = 0
    /\ sent = 0
    /\ inbox = <<>>
    /\ pc = [t \in Tasks |-> "idle"]
    /\ frame = [t \in Tasks |-> NoFrame]
    /\ resp = [t \in Tasks |-> NoResp]
    /\ cycles = 0
    /\ crashes = 0
    /\ start = [t \in Tasks |-> NoStart]
    /\ analysed = [t \in Tasks |-> <<>>]
    /\ calls = [t \in Tasks |-> <<>>]
    /\ dispatched = [t \in Tasks |-> <<>>]

\* analysis = analyze_metrics(window), called on its own
ApplyDetector ==
    /\ pc[1] = "idle"
    /\ frame' = [frame EXCEPT ![1].analysis = analyze_metrics(window)]
    /\ analysed' = [analysed EXCEPT ![1] = window]
    /\ pc' = [pc EXCEPT ![1] = "detected"]
    /\ UNCHANGED <<metrics, store, now, healthy, producers, resp, cycles, crashes,
                   start, calls, dispatched>>

\* rc = root_cause_reasoning(analysis), called on whatever the detector returned
ApplyClassifier ==
    /\ pc[1] = "detected"
    /\ frame' = [frame EXCEPT ![1].rc = root_cause_reasoning(frame[1].analysis)]
    /\ pc' = [pc EXCEPT ![1] = "classified"]
    /\ UNCHANGED <<metrics, store, now, healthy, producers, resp, cycles, crashes, history>>

NextDetect ==
    \/ ApplyDetector
    \/ ApplyClassifier

SpecDetect == InitDetect /\ [][NextDetect]_vars

TypeOK ==
    /\ Len(window) <= WindowCap
    /\ total_count \in Nat
    /\ error_count \in Nat
    /\ wfFile.status \in {"ok", "malformed", "missing"}
    /\ now \in 0..MaxClock
    /\ healthy \in {"ok", "crashed"}
    /\ pc \in [Tasks -> {"idle", "queued", "analyze", "act", "verify", "reflect", "save", "clear",
                         "detected", "classified"}]
    /\ \A t \in Tasks : Len(dispatched[t]) <= 1

\* ------------------------------------------------------------ properties
InFlight == {t \in Tasks : pc[t] \notin {"idle", "queued"}}

\* task t takes a step of its handler
Steps(t) == pc'[t] # pc[t] /\ pc[t] # "idle"

\* the last n elements of s
LastN(s, n) == IF Len(s) <= n THEN s ELSE SubSeq(s, Len(s) - n + 1, Len(s))

\* C1: the window never holds more than 30 events and always equals the
\* most recent (at most 30) events ingested since the last reset, in
\* arrival order: an ingest into a full window drops exactly the oldest.
C1_WindowIsFifo ==
    /\ Len(window) <= WindowCap
    /\ window = LastN(arrived, WindowCap)

\* a full window has evicted: more than 30 events arrived since the reset
C1_Witness == Len(arrived) > WindowCap /\ Len(window) = WindowCap

\* C2: when a run_cycle returns remediation_ran, whether the remediation
\* succeeded or failed, the window is empty and both counters are 0.
C2_ClearedAfterRemediation ==
    [][\A t \in Tasks :
          (Steps(t) /\ resp'[t].status = "remediation_ran")
              => (Len(window') = 0 /\ total_count' = 0 /\ error_count' = 0)]_vars

\* one cycle returned after a successful remediation and another after a
\* failed one, and the metrics are at zero
C2_Witness ==
    /\ \E t \in Tasks : resp[t].status = "remediation_ran" /\ resp[t].action_ok /\ resp[t].verified_ok
    /\ \E t \in Tasks : resp[t].status = "remediation_ran" /\ ~resp[t].verified_ok
    /\ Len(window) = 0 /\ total_count = 0 /\ error_count = 0

\* C3: a run_cycle whose verdict is not anomalous returns no_anomaly, has
\* sent nothing to the monitored service, and leaves the window, both
\* counters, the workflow document and the versions area as they were when
\* the handler started.
C3_QuietCycleChangesNothing ==
    [][\A t \in Tasks :
          (Steps(t) /\ pc[t] = "analyze" /\ ~analyze_metrics(window).anomaly)
              => /\ resp'[t].status = "no_anomaly"
                 /\ pc'[t] = "idle"
                 /\ calls[t] = <<>>
                 /\ Shared' = start[t]]_vars

\* a cycle returned no_anomaly over a window that holds events
C3_Witness ==
    \E t \in Tasks : resp[t].status = "no_anomaly" /\ Len(window) > 0 /\ total_count > 0

\* the files the cycle of task t has added to the versions area
NewVersions(t) == {v \in versions : v.name \notin VersionNames(start[t].versions)}

\* C4: every mutation of the workflow document by the evolver produces
\* exactly one new file in the versions area, named with the UTC second and
\* the reason, whose content is the document as it was before the mutation
\* (the snapshot precedes the save).
C4_OneNewVersionPerMutation ==
    [][\A t \in Tasks :
          (Steps(t) /\ pc[t] = "save")
              => /\ Cardinality(NewVersions(t)) = 1
                 /\ \A v \in NewVersions(t) :
                       /\ v.content = wfFile
                       /\ v.name.ts \in 0..MaxClock
                       /\ v.name.reason \in {"improved_after_success",
                                             "added_notify_after_failure"}]_vars

\* the number of steps with id notify_admin
NotifyCount(steps) == Cardinality({k \in 1..Len(steps) : steps[k].id = "notify_admin"})

\* the cycle of task t has reached the evolver with success = False
FailedCycle(t) ==
    /\ ~frame[t].action_detail.none
    /\ ~(frame[t].action_detail.ok /\ frame[t].verified.ok)

\* C5: the first failed cycle on a workflow without notify_admin appends
\* exactly one such step (type action_notify) and returns evolved true;
\* every later failed cycle returns evolved false, leaves the document
\* unchanged, creates no snapshot and adds no second notify_admin step.
C5_FailureIdempotence ==
    [][\A t \in Tasks :
          /\ (Steps(t) /\ pc[t] = "reflect" /\ FailedCycle(t) /\ NeedsNotify(frame[t].workflow))
                => /\ pc'[t] = "save"
                   /\ frame'[t].workflow = Append(frame[t].workflow, NotifyStep)
          /\ (Steps(t) /\ pc[t] = "clear" /\ ~frame[t].success)
                => IF NeedsNotify(start[t].wfFile.steps)
                   THEN /\ resp'[t].evolved
                        /\ wfFile'.steps = Append(start[t].wfFile.steps, NotifyStep)
                        /\ NotifyCount(wfFile'.steps) = 1
                   ELSE /\ ~resp'[t].evolved
                        /\ wfFile' = start[t].wfFile
                        /\ versions' = start[t].versions
                        /\ NotifyCount(wfFile'.steps) = NotifyCount(start[t].wfFile.steps)]_vars

\* the latency_threshold_ms of the anomaly_detection steps of a document
Thresholds(steps) ==
    [k \in {j \in 1..Len(steps) : steps[j].type = "anomaly_detection"} |->
        Get(steps[k].params, "latency_threshold_ms", DefaultThreshold)]

\* the cycle of task t has reached the evolver with success = True
SuccessfulCycle(t) == frame[t].action_detail.ok /\ frame[t].verified.ok

\* C6: each successful cycle sets the threshold of every anomaly_detection
\* step to max(80, trunc(0.95 * old)); the threshold never increases from
\* one cycle to the next and is never below 80.
C6_ThresholdEvolution ==
    [][\A t \in Tasks :
          (Steps(t) /\ pc[t] = "reflect" /\ SuccessfulCycle(t))
              => LET old == Thresholds(frame[t].workflow)
                     new == Thresholds(frame'[t].workflow)
                 IN  /\ pc'[t] = "save"
                     /\ DOMAIN new = DOMAIN old
                     /\ \A k \in DOMAIN old :
                           /\ new[k] = (IF (old[k] * 95) \div 100 > 80
                                        THEN (old[k] * 95) \div 100 ELSE 80)
                           /\ new[k] <= old[k]
                           /\ new[k] >= 80]_vars

\* C7: at most one cycle executes at a time: while a cycle is between its
\* load and its save no other cycle loads or saves the workflow document,
\* so the document a cycle overwrites is the one it loaded.
C7_OneCycleAtATime ==
    [][/\ Cardinality(InFlight') <= 1
       /\ \A t \in Tasks : (Steps(t) /\ pc[t] = "save") => wfFile = start[t].wfFile]_vars

\* a second run_cycle request is pending while the first is between its
\* snapshot and its save
C7_Witness == \E t, u \in Tasks : pc[t] = "save" /\ pc[u] = "queued"

\* C8: an ingest_log that arrives while a run_cycle is in flight does not
\* change what the detector analysed, and the events the cycle clears are
\* exactly the events it analysed.
C8_ClearedIsAnalysed ==
    \A t \in Tasks :
        pc[t] \in {"act", "verify", "reflect", "save", "clear"} => window = analysed[t]

\* a posted event waits while a cycle is about to clear a non-empty window
C8_Witness == \E t \in Tasks : pc[t] = "clear" /\ inbox # <<>> /\ Len(window) > 0

\* C9: a failed snapshot copy during an evolver mutation is not fatal: the
\* save of the mutated workflow still takes place and the cycle goes on to
\* clear the window and return its outcome.
C9_SnapshotFailureNotFatal ==
    [][\A t \in Tasks :
          (/\ Steps(t)
           /\ pc[t] = "reflect"
           /\ ~frame[t].action_detail.none
           /\ reflect_and_evolve(frame[t].workflow, SuccessfulCycle(t)).mutates)
              => (pc'[t] = "save" /\ resp'[t].status # "error")]_vars

ConfigurationErrors == {"FileNotFoundError", "JSONDecodeError", "IndexError", "AttributeError"}

\* C10: a missing or malformed workflow document, and an anomalous cycle
\* over a document without a step of type action_restart_service (an empty
\* step list included), end the cycle with an error; the document, the
\* versions area, the window and both counters are as they were when the
\* handler started.
C10_ConfigurationErrorIsFatal ==
    [][\A t \in Tasks :
          /\ (Steps(t) /\ pc[t] = "queued" /\ wfFile.status # "ok")
                => (resp'[t].status = "error" /\ Shared' = Shared)
          /\ (Steps(t) /\ pc[t] \in {"verify", "reflect"}
                /\ FirstRestart(frame[t].workflow) = 0 /\ pc'[t] # "reflect")
                => (resp'[t].status = "error" /\ pc'[t] = "idle")
          /\ (Steps(t) /\ resp'[t].status = "error" /\ resp'[t].error \in ConfigurationErrors)
                => Shared' = (IF pc[t] = "queued" THEN Shared ELSE start[t])]_vars

\* an anomalous cycle over a document without a restart step ended with an
\* error; the window still holds its events
C10_Witness ==
    \E t \in Tasks :
        /\ resp[t].status = "error"
        /\ resp[t].error = "AttributeError"
        /\ wfFile = FileOk(WorkflowNoRestart)
        /\ Len(window) > 0
        /\ versions = {}

\* the restart call or the verification probe of the cycle of task t did not
\* reach the monitored service
TransportFailed(t) ==
    \/ (frame[t].action_detail.contacted /\ frame[t].action_detail.status_code = 0)
    \/ /\ pc[t] \in {"reflect", "save", "clear"}
       /\ ~frame[t].action_detail.none
       /\ frame[t].verified.status_code = 0

\* C11: a transport failure of the restart call or of the verification probe
\* is captured as ok = false and never ends the cycle with an error: no
\* endpoint is called twice, success is false, the evolver takes its failure
\* path, and the cycle returns remediation_ran with the window cleared.
C11_TransportFailureCaptured ==
    [][\A t \in Tasks :
          (Steps(t) /\ TransportFailed(t))
              => /\ resp'[t].status # "error"
                 /\ Len(calls'[t]) <= 2
                 /\ ~SuccessfulCycle(t)
                 /\ pc[t] = "reflect"
                       => /\ pc'[t] \in {"save", "clear"}
                          /\ ~frame'[t].success
                          /\ frame'[t].workflow \in
                                {frame[t].workflow, Append(frame[t].workflow, NotifyStep)}
                 /\ pc[t] = "clear"
                       => /\ resp'[t].status = "remediation_ran"
                          /\ ~(resp'[t].action_ok /\ resp'[t].verified_ok)
                          /\ window' = <<>>]_vars

\* every event of the window lacks the latency_ms metric
NoLatencyAtAll(win) == \A k \in 1..Len(win) : "latency_ms" \notin DOMAIN win[k].metric

\* C12: for every window in which no event carries latency_ms, the empty
\* window and a window of error events with an empty metric included, the
\* detector returns anomaly = false.
C12_NoLatencyNoAnomaly ==
    (pc[1] \in {"detected", "classified"} /\ NoLatencyAtAll(analysed[1]))
        => ~frame[1].analysis.anomaly

\* floor of the square root of x, for lo * lo <= x < hi * hi
RECURSIVE SqrtBetween(_, _, _)
SqrtBetween(lo, hi, x) ==
    IF hi - lo <= 1 THEN lo
    ELSE LET mid == (lo + hi) \div 2
         IN  IF mid * mid <= x THEN SqrtBetween(mid, hi, x) ELSE SqrtBetween(lo, mid, x)

ISqrt(x) == SqrtBetween(0, 30000, x)

\* the latency the detector reads from each event of the window
SeriesOf(win) ==
    [k \in 1..Len(win) |->
        IF "latency_ms" \in DOMAIN win[k].metric THEN win[k].metric.latency_ms ELSE 0]

\* z > 2.0 for z = (latest - mean) / (std + 1e-6), mean and std those of
\* the population: with n values of sum S, n * std = sqrt(n * sum of
\* squares - S * S), so z > 2 iff n * latest - S > 2 * n * std + 2n/10^6,
\* and between integers (2n/10^6 < 1, values below 30000 / 2n) iff
\* n * latest - S exceeds the integer part of 2 * n * std.
ZExceedsTwo(win) ==
    LET x == SeriesOf(win)
        n == Len(x)
        S == SeqSum(x)
        spread == n * SeqSum([k \in 1..n |-> x[k] * x[k]]) - S * S
    IN  n * x[n] - S > ISqrt(4 * spread)

\* error_rate > 0.15 for error_rate = (events with level error or state
\* crashed) / (events of the window)
ErrorRateExceeds(win) ==
    LET flagged == {k \in 1..Len(win) : win[k].level = "error" \/ win[k].state = "crashed"}
    IN  Cardinality(flagged) * 20 > 3 * Len(win)

\* C13: the classifier is total on the verdicts of the detector and has a
\* fixed priority: service_crash_or_high_error_rate when error_rate > 0.15
\* (also when z > 2.0), else latency_spike when z > 2.0, else unknown; it
\* never fails.
C13_ClassifierTotal ==
    pc[1] = "classified"
        => /\ frame[1].rc \in {"service_crash_or_high_error_rate", "latency_spike", "unknown"}
           /\ analysed[1] # <<>>
                 => frame[1].rc = (IF ErrorRateExceeds(analysed[1])
                                     THEN "service_crash_or_high_error_rate"
                                   ELSE IF ZExceedsTwo(analysed[1]) THEN "latency_spike"
                                   ELSE "unknown")

SameButThreshold(a, b) ==
    /\ a.id = b.id
    /\ a.type = b.type
    /\ IF b.type = "anomaly_detection"
       THEN /\ DOMAIN a.params \ {"latency_threshold_ms"} = DOMAIN b.params \ {"latency_threshold_ms"}
            /\ \A key \in DOMAIN b.params \ {"latency_threshold_ms"} : a.params[key] = b.params[key]
       ELSE a = b

\* steps is the list base with thresholds changed, optionally followed by
\* the one notify_admin step
EvolvedFrom(steps, base) ==
    /\ \/ Len(steps) = Len(base)
       \/ Len(steps) = Len(base) + 1 /\ steps[Len(steps)] = NotifyStep
    /\ \A k \in 1..Len(base) : SameButThreshold(steps[k], base[k])

\* C15: the evolver changes only the latency_threshold_ms of
\* anomaly_detection steps or appends the single notify_admin step: the
\* persisted step list is always the initial list, same ids and types in
\* the same order, optionally followed by one notify_admin step, and its
\* ids stay unique.
C15_EvolverFrame ==
    [][/\ wfFile' # wfFile => EvolvedFrom(wfFile'.steps, wfFile.steps)
       /\ wfFile'.status = "ok"
             => /\ \E w \in InitialWorkflows : EvolvedFrom(wfFile'.steps, w)
                /\ Cardinality(StepIds(wfFile'.steps)) = Len(wfFile'.steps)
                /\ NotifyCount(wfFile'.steps) <= 1]_vars

\* the persisted document has had its threshold lowered by a successful
\* cycle and the notify_admin step appended by a failed one
C15_Witness ==
    /\ Len(wfFile.steps) = Len(WorkflowTypical) + 1
    /\ EvolvedFrom(wfFile.steps, WorkflowTypical)
    /\ wfFile.steps[1].params.latency_threshold_ms = 285
    /\ wfFile.steps[Len(wfFile.steps)].id = "notify_admin"

\* an event whose level is error, in any capitalisation, or whose state is crashed
IsErrorEvent(event) == event.level \in {"error", "Error", "ERROR"} \/ event.state = "crashed"

\* C16: each ingest_log adds 1 to total_count, and 1 to error_count iff the
\* event has level error or state crashed; neither counter decreases except
\* that a completed anomalous cycle resets both to 0; so error_count <=
\* total_count and len(window) = min(30, total_count) always.
C16_CounterAccounting ==
    [][/\ Len(arrived') = Len(arrived) + 1
             => /\ total_count' = total_count + 1
                /\ error_count' = error_count
                         + (IF IsErrorEvent(arrived'[Len(arrived')]) THEN 1 ELSE 0)
       /\ (total_count' < total_count \/ error_count' < error_count)
             => /\ \E t \in Tasks : pc[t] = "clear" /\ resp'[t].status = "remediation_ran"
                /\ total_count' = 0
                /\ error_count' = 0
       /\ error_count' <= total_count'
       /\ Len(window') = (IF total_count' < WindowCap THEN total_count' ELSE WindowCap)]_vars

\* more than 30 events have been ingested since the last reset, some of
\* them from a crashed service
C16_Witness ==
    /\ total_count > WindowCap
    /\ Len(window) = WindowCap
    /\ error_count > 0
    /\ error_count < total_count

\* C17: an anomalous cycle executes exactly one action, the first step of
\* type action_restart_service in document order: no later restart step and
\* no step of another type is dispatched, the action id reported is that
\* step's id, and the evolver takes its success path iff action ok and
\* verification ok are both true.
C17_OneActionFirstRestart ==
    [][\A t \in Tasks :
          /\ Len(dispatched'[t]) <= 1
          /\ Len(dispatched'[t]) > Len(dispatched[t])
                => LET k == dispatched'[t][1]
                       loaded == start[t].wfFile.steps
                   IN  /\ loaded[k].type = "action_restart_service"
                       /\ \A j \in 1..(k - 1) : loaded[j].type # "action_restart_service"
                       /\ frame'[t].action_taken = loaded[k].id
          /\ (Steps(t) /\ pc[t] = "clear")
                => /\ Len(dispatched[t]) = 1
                   /\ resp'[t].action_taken = start[t].wfFile.steps[dispatched[t][1]].id
          /\ (Steps(t) /\ pc[t] = "reflect" /\ pc'[t] \in {"save", "clear"})
                => LET both == frame[t].action_detail.ok /\ frame[t].verified.ok
                   IN  /\ frame'[t].success = both
                       /\ (frame'[t].note = "lowered latency threshold") = both
                       /\ both => pc'[t] = "save"]_vars

\* a cycle over the document with two restart steps is about to report:
\* it dispatched restart_a (docker_restart) and never called /recover,
\* which only restart_b would have done
C17_Witness ==
    \E t \in Tasks :
        /\ pc[t] = "clear"
        /\ start[t].wfFile.steps = WorkflowTwoRestarts
        /\ dispatched[t] = <<2>>
        /\ frame[t].action_taken = "restart_a"
        /\ frame[t].action_detail.ok
        /\ ~frame[t].success
        /\ \A k \in 1..Len(calls[t]) : calls[t][k] # "/recover"

\* C18: the verification of a cycle probes the check_endpoint of the last
\* step of the workflow the cycle loaded ("/" when that step has none),
\* not that of the restart step it executed, and is ok iff the probe
\* answers with HTTP status 200.
C18_ProbeOfLastStep ==
    [][\A t \in Tasks :
          (Steps(t) /\ pc[t] = "verify" /\ pc'[t] = "reflect")
              => LET loaded == start[t].wfFile.steps
                     last == loaded[Len(loaded)].params
                     path == IF "check_endpoint" \in DOMAIN last
                             THEN last.check_endpoint ELSE "/"
                     verified == frame'[t].verified
                 IN  /\ verified.path = path
                     /\ calls'[t] = Append(calls[t], path)
                     /\ verified.ok = (verified.status_code = 200)
                     /\ (path = "/work" /\ healthy = "crashed") => ~verified.ok
                     /\ path \notin {"/", "/work", "/crash", "/recover"} => ~verified.ok]_vars

\* a cycle that executed restart_a, which names no check_endpoint, probed
\* /health, the endpoint of the last step, and got a 404
C18_Witness ==
    \E t \in Tasks :
        /\ pc[t] = "reflect"
        /\ frame[t].action_taken = "restart_a"
        /\ frame[t].verified.path = "/health"
        /\ frame[t].verified.status_code = 404
        /\ ~frame[t].verified.ok

\* notify_admin is the last step of the persisted workflow
NotifyIsLast ==
    /\ wfFile.status = "ok"
    /\ wfFile.steps # <<>>
    /\ wfFile.steps[Len(wfFile.steps)].id = "notify_admin"

\* C19: once a failed cycle has appended notify_admin, that step stays the
\* last step of the persisted workflow for ever, so every later cycle
\* probes the default "/" whatever check_endpoint another step names.
C19_NotifyStaysLast ==
    [][/\ NotifyIsLast => NotifyIsLast'
       /\ \A t \in Tasks :
             (Steps(t) /\ pc[t] = "verify" /\ NotifyIsLast)
                 => /\ pc'[t] = "reflect"
                    /\ frame'[t].verified.path = "/"
                    /\ calls'[t] = Append(calls[t], "/")]_vars

\* after a failed cycle appended notify_admin behind a verify step that
\* names /work, a later cycle has probed "/" and found it healthy
C19_Witness ==
    \E t \in Tasks :
        /\ pc[t] = "reflect"
        /\ NotifyIsLast
        /\ Len(wfFile.steps) = 4
        /\ wfFile.steps[3] = VerifyStep("/work")
        /\ frame[t].verified.path = "/"
        /\ frame[t].verified.ok

\* C20: from any threshold >= 80 each successful cycle strictly lowers the
\* threshold until it is exactly 80 and then leaves it at 80; every such
\* cycle, also one that does not change the value, snapshots, saves and
\* returns evolved = true.
C20_ThresholdConverges ==
    [][\A t \in Tasks :
          /\ (Steps(t) /\ pc[t] = "reflect" /\ SuccessfulCycle(t)
                /\ \A k \in DOMAIN Thresholds(frame[t].workflow) :
                       Thresholds(frame[t].workflow)[k] >= MinThreshold)
                => /\ pc'[t] = "save"
                   /\ VersionName(now, "improved_after_success") \in VersionNames(versions')
                   /\ \A k \in DOMAIN Thresholds(frame[t].workflow) :
                         LET old == Thresholds(frame[t].workflow)[k]
                             new == Thresholds(frame'[t].workflow)[k]
                         IN  /\ new >= MinThreshold
                             /\ old > MinThreshold => new < old
                             /\ old = MinThreshold => new = MinThreshold
          /\ (Steps(t) /\ pc[t] = "save" /\ frame[t].success)
                => /\ wfFile' = FileOk(frame[t].workflow)
                   /\ pc'[t] = "clear"
          /\ (Steps(t) /\ pc[t] = "clear" /\ frame[t].success)
                => (resp'[t].status = "remediation_ran" /\ resp'[t].evolved)]_vars

====
